---------------------------- MODULE Spec2Model ----------------------------
(***************************************************************************)
(* The shopping cart and checkout submission of the plumbing landing page  *)
(* (src/unnamed/part_000, component Landing).                              *)
(*                                                                         *)
(* The component keeps three pieces of React state: cart, isCartOpen and   *)
(* customerInfo.  Every event handler runs to completion on the single UI  *)
(* thread and the component re-renders before the next event, so a handler *)
(* is one atomic action that reads the committed state.  submitCart is an  *)
(* async function: its synchronous part runs up to the await of fetch, and *)
(* its continuation runs when the request settles.  Requests that have     *)
(* been issued and have not settled are kept in the bag inflight.          *)
(*                                                                         *)
(* Prices are held in cents.  Every catalogue price is a multiple of 0.25, *)
(* so the floating point sums of the source are exact and integer          *)
(* arithmetic in cents computes the same totals.  The timestamp field of   *)
(* the payload is left out: nothing in the program reads it.               *)
(*                                                                         *)
(* The organization registry of the server (src/unnamed/part_001) is a     *)
(* second, independent program: an array and a counter in module scope,    *)
(* and four request handlers, each of which runs to completion.  It has    *)
(* its own next-state relation NextOrg and specification SpecOrg.          *)
(*                                                                         *)
(* The model picker of the 3D landing page (src/unnamed/part_001,          *)
(* component Landing) is a third program: React state for the model, the   *)
(* colour and the custom URL, a ref holding the object URL in use, the     *)
(* browser's localStorage and IndexedDB, and two kinds of pending promise  *)
(* (the read of the stored blob started at mount, and the writes started   *)
(* by uploads).  Its specification is SpecPicker.                          *)
(***************************************************************************)
EXTENDS Integers, Sequences, FiniteSets, Bags, TLC

(***************************************************************************)
(* Bounds of the model.                                                    *)
(***************************************************************************)
\* the user clicks "Add to Cart" on the first MaxProducts catalogue items
MaxProducts == 2
\* quantities entered or reached stay at or below MaxQty
MaxQty == 2
\* requests outstanding at the same time
MaxPending == 2
\* handler runs (user events) in one behaviour; the completions of issued
\* requests are events of the network and are not counted
MaxSteps == 7
\* organizations created in one behaviour of the registry
MaxOrgCreates == 2
\* the clock of the server runs from 0 to MaxClock
MaxClock == 1
\* files the user uploads to the model picker in one behaviour
MaxUploads == 2

VARIABLES
    cart,          \* useState<CartItem[]>([])
    isCartOpen,    \* useState(false)
    customerInfo,  \* useState({name, email, phone, address})
    inflight,      \* bag of the cartData payloads of unsettled requests
    last,          \* the handler that ran last, its arguments and its toasts
    steps,         \* number of handler runs so far
    organizations, \* export let organizations: Organization[] = []
    orgCounter,    \* let orgCounter = 1
    now,           \* the server's clock, read by Date.now() and new Date()
    res,           \* the request handled last and the response sent for it
    mounted,       \* whether the Landing component is mounted
    model,         \* useState<ModelType>(...)
    color,         \* useState(...)
    customUrl,     \* useState<string>("")
    customUrlInput,\* useState<string>("")
    objectUrlRef,  \* useRef<string | null>(null)
    localStorage,  \* the origin's localStorage, by key
    idb,           \* the blob stored under "customModel" in IndexedDB
    pendingGet,    \* the id asked of idbGetBlob at mount, while unsettled
    pendingPuts,   \* the uploads whose idbPutBlob has not settled
    created,       \* object URLs created in this document
    revoked,       \* object URLs revoked in this document
    uploads,       \* number of files handed to handleFile so far
    lastEvent      \* the picker event that happened last

cartVars == <<cart, isCartOpen, customerInfo, inflight, last, steps>>

orgVars == <<organizations, orgCounter, now, res>>

pickerVars == <<mounted, model, color, customUrl, customUrlInput,
                objectUrlRef, localStorage, idb, pendingGet, pendingPuts,
                created, revoked, uploads, lastEvent>>

vars == <<cart, isCartOpen, customerInfo, inflight, last, steps,
          organizations, orgCounter, now, res,
          mounted, model, color, customUrl, customUrlInput,
          objectUrlRef, localStorage, idb, pendingGet, pendingPuts,
          created, revoked, uploads, lastEvent>>

(***************************************************************************)
(* The catalogue.                                                          *)
(***************************************************************************)
PLUMBING_PRODUCTS ==
    << [id |-> "1", name |-> "Professional Pipe Wrench Set", price |-> 45000,
        image |-> "https://images.pexels.com/photos/162553/keys-workshop-mechanic-tools-162553.jpeg",
        category |-> "Tools",
        description |-> "Heavy-duty pipe wrench set for professional plumbers",
        inStock |-> TRUE],
       [id |-> "2", name |-> "Copper Pipe Fittings Kit", price |-> 28550,
        image |-> "https://images.pexels.com/photos/1093038/pexels-photo-1093038.jpeg",
        category |-> "Fittings",
        description |-> "Complete copper pipe fitting kit with joints and connections",
        inStock |-> TRUE],
       [id |-> "3", name |-> "High-Pressure Water Pump", price |-> 125000,
        image |-> "https://images.pexels.com/photos/159160/gear-machine-mechanical-engine-159160.jpeg",
        category |-> "Pumps",
        description |-> "Industrial grade water pump for high-pressure applications",
        inStock |-> TRUE],
       [id |-> "4", name |-> "PVC Pipe Bundle - 4 inch", price |-> 18575,
        image |-> "https://images.pexels.com/photos/1108572/pexels-photo-1108572.jpeg",
        category |-> "Pipes",
        description |-> "4-inch PVC pipes, 6-meter length bundle",
        inStock |-> TRUE],
       [id |-> "5", name |-> "Emergency Leak Repair Kit", price |-> 9500,
        image |-> "https://images.pexels.com/photos/1249611/pexels-photo-1249611.jpeg",
        category |-> "Repair",
        description |-> "Emergency leak repair kit with sealants and patches",
        inStock |-> TRUE],
       [id |-> "6", name |-> "Digital Water Flow Meter", price |-> 32000,
        image |-> "https://images.pexels.com/photos/257736/pexels-photo-257736.jpeg",
        category |-> "Meters",
        description |-> "Digital water flow meter with LCD display",
        inStock |-> TRUE],
       [id |-> "7", name |-> "Toilet Installation Kit", price |-> 14525,
        image |-> "https://images.pexels.com/photos/6419121/pexels-photo-6419121.jpeg",
        category |-> "Installation",
        description |-> "Complete toilet installation kit with all hardware",
        inStock |-> TRUE],
       [id |-> "8", name |-> "Professional Drain Snake", price |-> 27500,
        image |-> "https://images.pexels.com/photos/8101965/pexels-photo-8101965.jpeg",
        category |-> "Tools",
        description |-> "50-foot professional drain snake for blockage removal",
        inStock |-> TRUE] >>

\* the products whose "Add to Cart" button the user clicks
Shown == { PLUMBING_PRODUCTS[i] : i \in 1..MaxProducts }

\* ids handed to removeFromCart and updateQuantity: those of the shown
\* products and one id that no catalogue item has
ProductIds == { p.id : p \in Shown } \cup { "none" }

\* quantities handed to updateQuantity
Quantities == (-1)..MaxQty

\* values typed into the four inputs of the contact form
FieldValues ==
    [name    |-> {"", "Jane"},
     email   |-> {"", "jane@x.com"},
     phone   |-> {"", "0821234567"},
     address |-> {"", "1 Main Rd"}]

EmptyCustomerInfo == [name |-> "", email |-> "", phone |-> "", address |-> ""]

(***************************************************************************)
(* Notifications handed to toast().                                        *)
(***************************************************************************)
AddedToast(product) ==
    [title |-> "Added to cart", variant |-> "default", about |-> product.name]

EmptyCartToast ==
    [title |-> "Cart is empty", variant |-> "destructive",
     about |-> "Please add items to your cart before submitting."]

\* the warning worded for the email alone
MissingInfoToast_EmailOnly ==
    [title |-> "Missing information", variant |-> "destructive",
     about |-> "Please fill in your email address."]

MissingInfoToast ==
    [title |-> "Missing information", variant |-> "destructive",
     about |-> "Please fill in your name and email address."]

\* the contact fields a description mentions by name
FieldsNamedBy(description) ==
    IF description = "Please fill in your name and email address."
    THEN {"name", "email"}
    ELSE IF description = "Please fill in your name."
    THEN {"name"}
    ELSE IF description = "Please fill in your email address."
    THEN {"email"}
    ELSE {}

SubmittedToast ==
    [title |-> "Cart submitted!", variant |-> "default",
     about |-> "Your cart has been sent to our team. We'll contact you soon."]

FailedToast ==
    [title |-> "Submission failed", variant |-> "destructive",
     about |-> "There was an error submitting your cart. Please try again."]

(***************************************************************************)
(* The state updaters of the cart, as pure functions of the previous cart. *)
(***************************************************************************)
\* a line that does not carry the product's price
NewLine_PriceDropped(product) == [quantity |-> 1, price |-> 0] @@ product

\* { ...product, quantity: 1 }
NewLine(product) == [quantity |-> 1] @@ product

HasLine(prevCart, productId) ==
    \E i \in DOMAIN prevCart : prevCart[i].id = productId

\* addToCart incrementing every line instead of the matching one
AddToCartUpdater_IncrementsAll(prevCart, product) ==
    IF HasLine(prevCart, product.id)
    THEN [i \in DOMAIN prevCart |->
            [prevCart[i] EXCEPT !.quantity = @ + 1]]
    ELSE Append(prevCart, NewLine(product))

\* addToCart without the search for an existing line
AddToCartUpdater_AlwaysAppends(prevCart, product) ==
    Append(prevCart, NewLine(product))

AddToCartUpdater(prevCart, product) ==
    IF HasLine(prevCart, product.id)
    THEN [i \in DOMAIN prevCart |->
            IF prevCart[i].id = product.id
            THEN [prevCart[i] EXCEPT !.quantity = @ + 1]
            ELSE prevCart[i]]
    ELSE Append(prevCart, NewLine(product))

\* the filter with its test inverted
RemoveFromCartUpdater_KeepsOnlyId(prevCart, productId) ==
    SelectSeq(prevCart, LAMBDA item : item.id = productId)

RemoveFromCartUpdater(prevCart, productId) ==
    SelectSeq(prevCart, LAMBDA item : item.id # productId)

\* updateQuantity returning early, without the removal, for quantity <= 0
UpdateQuantityUpdater_NoRemoval(prevCart, productId, quantity) ==
    IF quantity <= 0
    THEN prevCart
    ELSE [i \in DOMAIN prevCart |->
            IF prevCart[i].id = productId
            THEN [prevCart[i] EXCEPT !.quantity = quantity]
            ELSE prevCart[i]]

\* updateQuantity adding the quantity to the line instead of setting it
UpdateQuantityUpdater_Incremental(prevCart, productId, quantity) ==
    IF quantity <= 0
    THEN RemoveFromCartUpdater(prevCart, productId)
    ELSE [i \in DOMAIN prevCart |->
            IF prevCart[i].id = productId
            THEN [prevCart[i] EXCEPT !.quantity = @ + quantity]
            ELSE prevCart[i]]

\* updateQuantity with the removal test written quantity < 0
UpdateQuantityUpdater_KeepsZero(prevCart, productId, quantity) ==
    IF quantity < 0
    THEN RemoveFromCartUpdater(prevCart, productId)
    ELSE [i \in DOMAIN prevCart |->
            IF prevCart[i].id = productId
            THEN [prevCart[i] EXCEPT !.quantity = quantity]
            ELSE prevCart[i]]

UpdateQuantityUpdater(prevCart, productId, quantity) ==
    IF quantity <= 0
    THEN RemoveFromCartUpdater(prevCart, productId)
    ELSE [i \in DOMAIN prevCart |->
            IF prevCart[i].id = productId
            THEN [prevCart[i] EXCEPT !.quantity = quantity]
            ELSE prevCart[i]]

\* items.reduce((total, item) => total + item.price * item.quantity, 0),
\* folded from the left over the first n items
RECURSIVE ReduceTotal(_, _)
ReduceTotal(items, n) ==
    IF n = 0 THEN 0
    ELSE ReduceTotal(items, n - 1) + items[n].price * items[n].quantity

\* the reduce with the quantity factor forgotten
RECURSIVE ReducePrices(_, _)
ReducePrices(items, n) ==
    IF n = 0 THEN 0 ELSE ReducePrices(items, n - 1) + items[n].price

CartTotal_IgnoresQuantity(items) == ReducePrices(items, Len(items))

CartTotal(items) == ReduceTotal(items, Len(items))

\* the badge counting lines
BadgeCount_Lines(items) == Len(items)

\* cart.reduce((sum, item) => sum + item.quantity, 0)
RECURSIVE ReduceQuantity(_, _)
ReduceQuantity(items, n) ==
    IF n = 0 THEN 0 ELSE ReduceQuantity(items, n - 1) + items[n].quantity

BadgeCount(items) == ReduceQuantity(items, Len(items))

\* <span>Cart ({cart.length})</span>
CartLabel == Len(cart)

\* {cart.length > 0 && (<span ...>
BadgeShown == Len(cart) > 0

\* the number in the badge
Badge == BadgeCount(cart)

getTotalPrice == CartTotal(cart)

(***************************************************************************)
(* The model picker (src/unnamed/part_001): storage and first render.      *)
(***************************************************************************)
\* what localStorage.getItem returns for a key that is not stored, and the
\* null of objectUrlRef and of idbGetBlob
Null == "<null>"

StorageKeys ==
    {"landing.model", "landing.color", "landing.custom.type",
     "landing.custom.url", "landing.custom.blobId"}

\* the localStorage of a browser that has not shown the page yet
EmptyStorage == [key \in StorageKeys |-> Null]

\* localStorage.getItem(key) || default
GetItemOr(ls, key, default) ==
    IF ls[key] \in {Null, ""} THEN default ELSE ls[key]

\* the model buttons the user clicks: two of the built-in primitives and
\* "Custom"
ModelButtons == {"torus", "box", "custom"}

\* the colour buttons the user clicks
ColorButtons == {"#3b82f6", "#16a34a"}

\* texts typed into the URL input
UrlInputs == {"", "https://example.com/model.glb"}

\* e.target.files?.[0] when no file was chosen
NoFile == "<undefined>"

\* files chosen in the upload input
Files == {"a.glb", "b.glb"}

\* the initial value of the model state
InitialModel(ls) == GetItemOr(ls, "landing.model", "torus")

\* the initial value of the color state
InitialColor(ls) == GetItemOr(ls, "landing.color", "#3b82f6")

\* the restore effect takes its "url" branch and finds a URL
RestoresUrl(ls) ==
    /\ ls["landing.custom.type"] = "url"
    /\ GetItemOr(ls, "landing.custom.url", "") # ""

\* model once the effects of the first render have run
MountedModel(ls) == IF RestoresUrl(ls) THEN "custom" ELSE InitialModel(ls)

\* customUrl once the effects of the first render have run
MountedCustomUrl(ls) ==
    IF RestoresUrl(ls) THEN ls["landing.custom.url"] ELSE ""

\* localStorage once the two persistence effects have run for the last time
MountedStorage(ls) ==
    [ls EXCEPT !["landing.model"] = MountedModel(ls),
               !["landing.color"] = InitialColor(ls)]

\* the id the restore effect hands to idbGetBlob, if it takes its "blob"
\* branch
MountedGet(ls) ==
    IF ls["landing.custom.type"] = "blob"
    THEN GetItemOr(ls, "landing.custom.blobId", "customModel")
    ELSE Null

(***************************************************************************)
(* Initial state: the state after the component's first render.            *)
(***************************************************************************)
Init ==
    /\ cart = << >>
    /\ isCartOpen = FALSE
    /\ customerInfo = EmptyCustomerInfo
    /\ inflight = EmptyBag
    /\ last = [op |-> "mount", args |-> << >>, toasts |-> << >>]
    /\ steps = 0
    /\ organizations = << >>
    /\ orgCounter = 1
    /\ now = 0
    /\ res = [handler |-> "none", req |-> << >>, status |-> 0, body |-> << >>]
    /\ mounted = TRUE
    /\ model = MountedModel(EmptyStorage)
    /\ color = InitialColor(EmptyStorage)
    /\ customUrl = MountedCustomUrl(EmptyStorage)
    /\ customUrlInput = ""
    /\ objectUrlRef = Null
    /\ localStorage = MountedStorage(EmptyStorage)
    /\ idb = Null
    /\ pendingGet = MountedGet(EmptyStorage)
    /\ pendingPuts = {}
    /\ created = {}
    /\ revoked = {}
    /\ uploads = 0
    /\ lastEvent = "mount"

\* one handler run: its name, its arguments and the toasts it emitted
Step(op, args, toasts) ==
    /\ steps < MaxSteps
    /\ steps' = steps + 1
    /\ last' = [op |-> op, args |-> args, toasts |-> toasts]
    /\ UNCHANGED <<orgVars, pickerVars>>

\* the continuation of submitCart, run when a request settles
Settle(op, args, toasts) ==
    /\ last' = [op |-> op, args |-> args, toasts |-> toasts]
    /\ UNCHANGED steps
    /\ UNCHANGED <<orgVars, pickerVars>>

WithinQty(items) == \A i \in DOMAIN items : items[i].quantity <= MaxQty

(***************************************************************************)
(* Cart handlers.                                                          *)
(***************************************************************************)
addToCart(product) ==
    /\ cart' = AddToCartUpdater(cart, product)
    /\ WithinQty(cart')
    /\ Step("addToCart", [product |-> product], << AddedToast(product) >>)
    /\ UNCHANGED <<isCartOpen, customerInfo, inflight>>

removeFromCart(productId) ==
    /\ cart' = RemoveFromCartUpdater(cart, productId)
    /\ Step("removeFromCart", [productId |-> productId], << >>)
    /\ UNCHANGED <<isCartOpen, customerInfo, inflight>>

updateQuantity(productId, quantity) ==
    /\ cart' = UpdateQuantityUpdater(cart, productId, quantity)
    /\ Step("updateQuantity", [productId |-> productId, quantity |-> quantity],
            << >>)
    /\ UNCHANGED <<isCartOpen, customerInfo, inflight>>

(***************************************************************************)
(* The cart view and the contact form.                                      *)
(***************************************************************************)
openCart ==
    /\ isCartOpen' = TRUE
    /\ Step("openCart", << >>, << >>)
    /\ UNCHANGED <<cart, customerInfo, inflight>>

\* closing the cart view also emptying the cart
closeCart_ClearsCart ==
    /\ isCartOpen' = FALSE
    /\ cart' = << >>
    /\ Step("closeCart", << >>, << >>)
    /\ UNCHANGED <<customerInfo, inflight>>

closeCart ==
    /\ isCartOpen' = FALSE
    /\ Step("closeCart", << >>, << >>)
    /\ UNCHANGED <<cart, customerInfo, inflight>>

\* the setter called with the new field alone, without the spread
WithField_Replaces(info, field, value) ==
    [EmptyCustomerInfo EXCEPT ![field] = value]

\* { ...customerInfo, [field]: value }
WithField(info, field, value) == [info EXCEPT ![field] = value]

setCustomerField(field, value) ==
    /\ customerInfo' = WithField(customerInfo, field, value)
    /\ Step("setCustomerInfo", [field |-> field, value |-> value], << >>)
    /\ UNCHANGED <<cart, isCartOpen, inflight>>

(***************************************************************************)
(* submitCart, synchronous part: the two checks, the payload, the fetch.    *)
(***************************************************************************)
\* the emptiness test written against a cart that is never empty
CartIsEmpty_NeverEmpty(items) == Len(items) < 0

\* cart.length === 0
CartIsEmpty(items) == Len(items) = 0

\* the presence test without the email
MissingInformation_NameOnly(info) == info.name = ""

\* the presence test extended to the phone number
MissingInformation_NeedsPhone(info) ==
    info.name = "" \/ info.email = "" \/ info.phone = ""

\* the presence test written with && in place of ||
MissingInformation_BothMissing(info) == info.name = "" /\ info.email = ""

\* !customerInfo.name || !customerInfo.email
MissingInformation(info) == info.name = "" \/ info.email = ""

\* the payload built from the initial form state instead of the current one
BuildCartData_StaleCustomer(info, items) ==
    [customer |-> EmptyCustomerInfo, items |-> items,
     total |-> CartTotal(items)]

BuildCartData(info, items) ==
    [customer |-> info, items |-> items, total |-> CartTotal(items)]

\* the body handed to fetch('/api/send-cart-email', { method: 'POST', ... })
RequestBody(info, items) ==
    [to |-> "admin@bbplumbing.co.za",
     subject |-> "New Cart Submission - BlockBusters Plumbing",
     cartData |-> BuildCartData(info, items)]

\* the fetch issued twice
RequestsIssued_Twice(info, items) ==
    IF CartIsEmpty(items) \/ MissingInformation(info)
    THEN EmptyBag
    ELSE SetToBag({ RequestBody(info, items) })
            (+) SetToBag({ RequestBody(info, items) })

\* the fetch skipped while an earlier request is outstanding
RequestsIssued_Guarded(info, items) ==
    IF CartIsEmpty(items) \/ MissingInformation(info) \/ inflight # EmptyBag
    THEN EmptyBag
    ELSE SetToBag({ RequestBody(info, items) })

\* the requests submitCart issues for the given state
RequestsIssued(info, items) ==
    IF CartIsEmpty(items) \/ MissingInformation(info)
    THEN EmptyBag
    ELSE SetToBag({ RequestBody(info, items) })

\* the contact check made before the cart check
SubmitToasts_InfoFirst(info, items) ==
    IF MissingInformation(info) THEN << MissingInfoToast >>
    ELSE IF CartIsEmpty(items) THEN << EmptyCartToast >>
    ELSE << >>

\* the toasts the synchronous part emits for the given state
SubmitToasts(info, items) ==
    IF CartIsEmpty(items) THEN << EmptyCartToast >>
    ELSE IF MissingInformation(info) THEN << MissingInfoToast >>
    ELSE << >>

submitCart ==
    /\ inflight' = inflight (+) RequestsIssued(customerInfo, cart)
    /\ BagCardinality(inflight') <= MaxPending
    /\ Step("submitCart", << >>, SubmitToasts(customerInfo, cart))
    /\ UNCHANGED <<cart, isCartOpen, customerInfo>>

(***************************************************************************)
(* submitCart, continuation: the request settles.                           *)
(***************************************************************************)
\* a settled request left among the outstanding ones
Settled_Stays(request) == inflight

Settled(request) == inflight (-) SetToBag({ request })

\* response.ok
SuccessToasts == << SubmittedToast >>

\* the thrown error swallowed without a toast
NotOkToasts_Silent == << >>

\* !response.ok: throw new Error(...), caught by the catch block
NotOkToasts == << FailedToast >>

\* a rejected fetch reported twice
RejectedToasts_Twice == << FailedToast, FailedToast >>

\* fetch rejected: caught by the catch block
RejectedToasts == << FailedToast >>

\* the success branch without the reset of the contact form
responseOk_KeepsCustomerInfo(request) ==
    /\ inflight' = Settled(request)
    /\ cart' = << >>
    /\ isCartOpen' = FALSE
    /\ Settle("responseOk", [request |-> request], SuccessToasts)
    /\ UNCHANGED customerInfo

responseOk(request) ==
    /\ inflight' = Settled(request)
    /\ cart' = << >>
    /\ customerInfo' = EmptyCustomerInfo
    /\ isCartOpen' = FALSE
    /\ Settle("responseOk", [request |-> request], SuccessToasts)

responseNotOk(request) ==
    /\ inflight' = Settled(request)
    /\ Settle("responseNotOk", [request |-> request], NotOkToasts)
    /\ UNCHANGED <<cart, customerInfo, isCartOpen>>

fetchRejected(request) ==
    /\ inflight' = Settled(request)
    /\ Settle("fetchRejected", [request |-> request], RejectedToasts)
    /\ UNCHANGED <<cart, customerInfo, isCartOpen>>

Fields == {"name", "email", "phone", "address"}

Next ==
    \/ \E product \in Shown : addToCart(product)
    \/ \E productId \in ProductIds : removeFromCart(productId)
    \/ \E productId \in ProductIds, quantity \in Quantities :
          updateQuantity(productId, quantity)
    \/ openCart
    \/ closeCart
    \/ \E field \in Fields : \E value \in FieldValues[field] :
          setCustomerField(field, value)
    \/ submitCart
    \/ \E request \in BagToSet(inflight) : responseOk(request)
    \/ \E request \in BagToSet(inflight) : responseNotOk(request)
    \/ \E request \in BagToSet(inflight) : fetchRejected(request)

Spec == Init /\ [][Next]_vars

\* some outstanding request settles
SettleSome ==
    \E request \in BagToSet(inflight) :
        \/ responseOk(request)
        \/ responseNotOk(request)
        \/ fetchRejected(request)

\* the network is fair: an outstanding request does not stay outstanding
\* for ever
SpecFair == Spec /\ WF_vars(SettleSome)

(***************************************************************************)
(* The organization registry (src/unnamed/part_001).                       *)
(***************************************************************************)
\* `org-${Date.now()}-${orgCounter++}`: the two numbers, kept apart by "-"
OrgId(timestamp, counter) == << "org", timestamp, counter >>

\* an id no create ever issues
UnknownOrgId == << "org", 0, 0 >>

\* an object with no property: {} and, after `req.body || {}`, undefined
EmptyObject == << >>

\* request bodies: no property, an empty name, a name alone, a name with a
\* logo, settings alone
OrgBodies ==
    { EmptyObject,
      [name |-> ""],
      [name |-> "Acme"],
      [name |-> "Beta", logoUrl |-> "/logo.png"],
      [settings |-> [theme |-> "dark"]] }

\* whether property key of body is truthy ("" is falsy, an object is not)
Truthy(body, key) ==
    /\ key \in DOMAIN body
    /\ key \in {"name", "logoUrl"} => body[key] # ""

\* ...(body[key] ? { [key]: body[key] } : {})
SpreadIfTruthy(body, key) ==
    IF Truthy(body, key) THEN [k \in {key} |-> body[key]] ELSE EmptyObject

IdsInRegistry == { organizations[i].id : i \in DOMAIN organizations }

\* ids a request names: those in the registry and one that is not
RequestIds == IdsInRegistry \cup { UnknownOrgId }

\* req.user: absent, or a user with a role and an organizations property
\* that is an array of ids or is not an array
OrgUsers ==
    { [present |-> FALSE],
      [present |-> TRUE, role |-> "super_admin", isArray |-> FALSE,
       organizations |-> {}],
      [present |-> TRUE, role |-> "admin", isArray |-> FALSE,
       organizations |-> {}] }
    \cup { [present |-> TRUE, role |-> "admin", isArray |-> TRUE,
            organizations |-> o] : o \in SUBSET RequestIds }

Respond(handler, req, status, body) ==
    res' = [handler |-> handler, req |-> req, status |-> status, body |-> body]

\* the record built with an id numbered by the registry's length
NewOrganization_IdFromLength(body) ==
    SpreadIfTruthy(body, "settings")
        @@ SpreadIfTruthy(body, "logoUrl")
        @@ [id |-> OrgId(now, Len(organizations) + 1), name |-> body.name,
            createdAt |-> now]

\* the record handleCreateOrganization builds
NewOrganization(body) ==
    SpreadIfTruthy(body, "settings")
        @@ SpreadIfTruthy(body, "logoUrl")
        @@ [id |-> OrgId(now, orgCounter), name |-> body.name,
            createdAt |-> now]

handleCreateOrganization(body) ==
    /\ IF ~Truthy(body, "name")
       THEN /\ Respond("create", [body |-> body], 400,
                       [error |-> "Organization name is required"])
            /\ UNCHANGED <<organizations, orgCounter>>
       ELSE /\ orgCounter <= MaxOrgCreates
            /\ organizations' = Append(organizations, NewOrganization(body))
            /\ orgCounter' = orgCounter + 1
            /\ Respond("create", [body |-> body], 201, NewOrganization(body))
    /\ UNCHANGED <<now, cartVars, pickerVars>>

\* the list answered without the filter
ScopedOrganizations_All(orgs, uOrgs) == orgs

\* organizations.filter(org => uOrgs.includes(org.id))
ScopedOrganizations(orgs, uOrgs) ==
    SelectSeq(orgs, LAMBDA org : org.id \in uOrgs)

\* Array.isArray(currentUser?.organizations) ? currentUser.organizations : []
UserOrganizations(user) ==
    IF user.present /\ user.isArray THEN user.organizations ELSE {}

\* the body handleGetOrganizations answers with
ListedOrganizations(user, orgs) ==
    IF user.present /\ user.role = "super_admin"
    THEN orgs
    ELSE ScopedOrganizations(orgs, UserOrganizations(user))

handleGetOrganizations(user) ==
    /\ Respond("list", [user |-> user], 200,
               ListedOrganizations(user, organizations))
    /\ UNCHANGED <<organizations, orgCounter, now, cartVars, pickerVars>>

\* organizations.findIndex(o => o.id === id), 0 standing for -1
FindIndex(orgs, id) ==
    IF \E i \in DOMAIN orgs : orgs[i].id = id
    THEN CHOOSE i \in DOMAIN orgs :
            /\ orgs[i].id = id
            /\ \A j \in DOMAIN orgs : orgs[j].id = id => i <= j
    ELSE 0

\* { ...organizations[idx], ...name, ...logoUrl, ...settings }
UpdatedOrganization(org, updates) ==
    SpreadIfTruthy(updates, "settings")
        @@ SpreadIfTruthy(updates, "logoUrl")
        @@ SpreadIfTruthy(updates, "name")
        @@ org

handleUpdateOrganization(id, updates) ==
    /\ LET idx == FindIndex(organizations, id)
       IN  IF idx = 0
           THEN /\ Respond("update", [id |-> id, body |-> updates], 404,
                           [error |-> "Organization not found"])
                /\ UNCHANGED organizations
           ELSE /\ organizations' =
                      [organizations EXCEPT
                          ![idx] = UpdatedOrganization(organizations[idx], updates)]
                /\ Respond("update", [id |-> id, body |-> updates], 200,
                           UpdatedOrganization(organizations[idx], updates))
    /\ UNCHANGED <<orgCounter, now, cartVars, pickerVars>>

\* organizations.splice(0, 1)
Splice_First(orgs, idx) == Tail(orgs)

\* organizations.splice(idx, 1)
Splice(orgs, idx) == SubSeq(orgs, 1, idx - 1) \o SubSeq(orgs, idx + 1, Len(orgs))

handleDeleteOrganization(id) ==
    /\ LET idx == FindIndex(organizations, id)
       IN  IF idx = 0
           THEN /\ Respond("delete", [id |-> id], 404,
                           [error |-> "Organization not found"])
                /\ UNCHANGED organizations
           ELSE /\ organizations' = Splice(organizations, idx)
                /\ Respond("delete", [id |-> id], 204, << >>)
    /\ UNCHANGED <<orgCounter, now, cartVars, pickerVars>>

\* time passes on the server
Tick ==
    /\ now < MaxClock
    /\ now' = now + 1
    /\ UNCHANGED <<organizations, orgCounter, res, cartVars, pickerVars>>

NextOrg ==
    \/ \E body \in OrgBodies : handleCreateOrganization(body)
    \/ \E user \in OrgUsers : handleGetOrganizations(user)
    \/ \E id \in RequestIds : \E updates \in OrgBodies :
          handleUpdateOrganization(id, updates)
    \/ \E id \in RequestIds : handleDeleteOrganization(id)
    \/ Tick

SpecOrg == Init /\ [][NextOrg]_vars

(***************************************************************************)
(* The model picker: event handlers, promise continuations, unmount and    *)
(* reload.                                                                 *)
(***************************************************************************)
Event(name) ==
    /\ lastEvent' = name
    /\ UNCHANGED <<cartVars, orgVars>>

\* onClick={() => setModel(m)}, followed by the [model] effect
selectModel(m) ==
    /\ mounted
    /\ model' = m
    /\ localStorage' = [localStorage EXCEPT !["landing.model"] = m]
    /\ Event("selectModel")
    /\ UNCHANGED <<mounted, color, customUrl, customUrlInput, objectUrlRef,
                   idb, pendingGet, pendingPuts, created, revoked, uploads>>

\* onClick={() => setColor(c)}, followed by the [color] effect
selectColor(c) ==
    /\ mounted
    /\ color' = c
    /\ localStorage' = [localStorage EXCEPT !["landing.color"] = c]
    /\ Event("selectColor")
    /\ UNCHANGED <<mounted, model, customUrl, customUrlInput, objectUrlRef,
                   idb, pendingGet, pendingPuts, created, revoked, uploads>>

\* onChange={(e) => setCustomUrlInput(e.target.value)}
typeCustomUrl(value) ==
    /\ mounted
    /\ customUrlInput' = value
    /\ Event("typeCustomUrl")
    /\ UNCHANGED <<mounted, model, color, customUrl, objectUrlRef,
                   localStorage, idb, pendingGet, pendingPuts, created,
                   revoked, uploads>>

\* the Load button
loadCustomUrl ==
    /\ mounted
    /\ IF customUrlInput # ""
       THEN /\ customUrl' = customUrlInput
            /\ model' = "custom"
            /\ localStorage' =
                  [localStorage EXCEPT
                      !["landing.custom.type"] = "url",
                      !["landing.custom.url"] = customUrlInput,
                      !["landing.model"] = "custom"]
       ELSE UNCHANGED <<customUrl, model, localStorage>>
    /\ Event("loadCustomUrl")
    /\ UNCHANGED <<mounted, color, customUrlInput, objectUrlRef, idb,
                   pendingGet, pendingPuts, created, revoked, uploads>>

\* handleFile up to its await of idbPutBlob
handleFile(file) ==
    /\ mounted
    /\ IF file = NoFile
       THEN UNCHANGED <<pendingPuts, uploads>>
       ELSE /\ uploads < MaxUploads
            /\ uploads' = uploads + 1
            /\ pendingPuts' =
                  pendingPuts \cup { [n |-> uploads + 1, file |-> file] }
    /\ Event("handleFile")
    /\ UNCHANGED <<mounted, model, color, customUrl, customUrlInput,
                   objectUrlRef, localStorage, idb, pendingGet, created,
                   revoked>>

\* URL.createObjectURL: a URL this document has not had before
NewObjectUrl == "blob:" \o ToString(Cardinality(created) + 1)

\* the four statements shared by handleFile and the restore effect: revoke
\* the URL in the ref, create one, keep it in the ref, setCustomUrl and
\* setModel("custom"); ls is localStorage as the step has written it so far.
\* The setters of an unmounted component change nothing.
UseNewObjectUrl(ls) ==
    /\ revoked' = IF objectUrlRef # Null
                  THEN revoked \cup { objectUrlRef } ELSE revoked
    /\ created' = created \cup { NewObjectUrl }
    /\ objectUrlRef' = NewObjectUrl
    /\ IF mounted
       THEN /\ customUrl' = NewObjectUrl
            /\ model' = "custom"
            /\ localStorage' = [ls EXCEPT !["landing.model"] = "custom"]
       ELSE /\ UNCHANGED <<customUrl, model>>
            /\ localStorage' = ls

\* handleFile after idbPutBlob resolved
putResolved(put) ==
    /\ pendingPuts' = pendingPuts \ { put }
    /\ idb' = put.file
    /\ UseNewObjectUrl([localStorage EXCEPT
                            !["landing.custom.type"] = "blob",
                            !["landing.custom.blobId"] = "customModel"])
    /\ Event("putResolved")
    /\ UNCHANGED <<mounted, color, customUrlInput, pendingGet, uploads>>

\* handleFile after idbPutBlob rejected: catch {}
putRejected(put) ==
    /\ pendingPuts' = pendingPuts \ { put }
    /\ UseNewObjectUrl(localStorage)
    /\ Event("putRejected")
    /\ UNCHANGED <<mounted, color, customUrlInput, idb, pendingGet, uploads>>

\* what idbGetBlob(id) resolves to
StoredBlob(id) == IF id = "customModel" THEN idb ELSE Null

\* idbGetBlob(id).then((blob) => { ... })
getResolved ==
    /\ pendingGet # Null
    /\ pendingGet' = Null
    /\ IF StoredBlob(pendingGet) # Null
       THEN UseNewObjectUrl(localStorage)
       ELSE UNCHANGED <<revoked, created, objectUrlRef, customUrl, model,
                        localStorage>>
    /\ Event("getResolved")
    /\ UNCHANGED <<mounted, color, customUrlInput, idb, pendingPuts, uploads>>

\* idbGetBlob(id) rejected: .catch(() => {})
getRejected ==
    /\ pendingGet # Null
    /\ pendingGet' = Null
    /\ Event("getRejected")
    /\ UNCHANGED <<mounted, model, color, customUrl, customUrlInput,
                   objectUrlRef, localStorage, idb, pendingPuts, created,
                   revoked, uploads>>

\* the component unmounts (the user follows a Link): the cleanup of the
\* restore effect runs; promises that are pending stay pending
unmount ==
    /\ mounted
    /\ mounted' = FALSE
    /\ revoked' = IF objectUrlRef # Null
                  THEN revoked \cup { objectUrlRef } ELSE revoked
    /\ Event("unmount")
    /\ UNCHANGED <<model, color, customUrl, customUrlInput, objectUrlRef,
                   localStorage, idb, pendingGet, pendingPuts, created,
                   uploads>>

\* the page is reloaded: the document and its promises and object URLs are
\* gone, localStorage and IndexedDB stay, and the component renders anew
reload ==
    /\ mounted
    /\ model' = MountedModel(localStorage)
    /\ color' = InitialColor(localStorage)
    /\ customUrl' = MountedCustomUrl(localStorage)
    /\ customUrlInput' = ""
    /\ objectUrlRef' = Null
    /\ localStorage' = MountedStorage(localStorage)
    /\ pendingGet' = MountedGet(localStorage)
    /\ pendingPuts' = {}
    /\ created' = {}
    /\ revoked' = {}
    /\ Event("reload")
    /\ UNCHANGED <<mounted, idb, uploads>>

NextPicker ==
    \/ \E m \in ModelButtons : selectModel(m)
    \/ \E c \in ColorButtons : selectColor(c)
    \/ \E value \in UrlInputs : typeCustomUrl(value)
    \/ loadCustomUrl
    \/ \E file \in Files \cup { NoFile } : handleFile(file)
    \/ \E put \in pendingPuts : putResolved(put)
    \/ \E put \in pendingPuts : putRejected(put)
    \/ getResolved
    \/ getRejected
    \/ unmount
    \/ reload

SpecPicker == Init /\ [][NextPicker]_vars

(***************************************************************************)
(* Properties.                                                             *)
(***************************************************************************)
SubmitCompletions == {"responseOk", "responseNotOk", "fetchRejected"}

Pending == BagCardinality(inflight)

\* the sum of f[x] over the finite set S
RECURSIVE SumOver(_, _)
SumOver(f, S) ==
    IF S = {} THEN 0
    ELSE LET x == CHOOSE y \in S : TRUE
         IN  f[x] + SumOver(f, S \ {x})

\* price x quantity summed over the lines of items, in no particular order
LineSum(items) ==
    SumOver([i \in DOMAIN items |-> items[i].price * items[i].quantity],
            DOMAIN items)

Titles(toasts) == { toasts[i].title : i \in DOMAIN toasts }

\* C1: after any sequence of addToCart, removeFromCart and updateQuantity
\* calls from the empty cart (any ids, quantities at or below 0 included)
\* every line of the cart has quantity >= 1.
C1_QuantityAtLeastOne ==
    \A i \in DOMAIN cart : cart[i].quantity >= 1

\* updateQuantity was called with quantity 0 on a cart that keeps a line
C1_Witness ==
    /\ last.op = "updateQuantity"
    /\ last.args.quantity <= 0
    /\ last.args.productId \in { p.id : p \in Shown }
    /\ Len(cart) >= 1

\* C2: in every reachable state the cart holds at most one line per
\* product id.
C2_OneLinePerId ==
    \A i, j \in DOMAIN cart : cart[i].id = cart[j].id => i = j

\* a product was added a second time and the cart still has one line
C2_Witness ==
    /\ last.op = "addToCart"
    /\ Len(cart) = 1
    /\ cart[1].id = last.args.product.id
    /\ cart[1].quantity = 2

\* C3: getTotalPrice returns the sum of price x quantity over the lines
\* currently in the cart, 0 for the empty cart; it is a function of the
\* cart alone, so it changes no state and two calls on the same cart agree.
C3_TotalIsLineSum ==
    /\ getTotalPrice = LineSum(cart)
    /\ cart = << >> => getTotalPrice = 0

\* two lines, one of them with quantity 2: 2 x 450.00 + 285.50
C3_Witness ==
    /\ Len(cart) = 2
    /\ \E i \in DOMAIN cart : cart[i].quantity = 2 /\ cart[i].id = "1"
    /\ \E i \in DOMAIN cart : cart[i].quantity = 1 /\ cart[i].id = "2"
    /\ getTotalPrice = 118550

\* C4: submitCart run with an empty cart issues no request, emits one
\* warning toast and leaves cart, customerInfo and isCartOpen unchanged.
C4_EmptyCartRejected ==
    [][ (last'.op = "submitCart" /\ cart = << >>) =>
            /\ inflight' = inflight
            /\ Len(last'.toasts) = 1
            /\ last'.toasts[1].title = "Cart is empty"
            /\ last'.toasts[1].variant = "destructive"
            /\ cart' = << >>
            /\ customerInfo' = customerInfo
            /\ isCartOpen' = isCartOpen ]_vars

\* submitCart ran on an empty cart with the form filled and the view open
C4_Witness ==
    /\ last.op = "submitCart"
    /\ cart = << >>
    /\ customerInfo.name # "" /\ customerInfo.email # ""
    /\ isCartOpen

\* C5: submitCart run with a non-empty cart and an empty name or an empty
\* email issues no request, emits one warning toast and leaves the cart and
\* the four customerInfo fields unchanged.
C5_MissingInfoRejected ==
    [][ (/\ last'.op = "submitCart"
         /\ cart # << >>
         /\ (customerInfo.name = "" \/ customerInfo.email = "")) =>
            /\ inflight' = inflight
            /\ Len(last'.toasts) = 1
            /\ last'.toasts[1].title = "Missing information"
            /\ last'.toasts[1].variant = "destructive"
            /\ cart' = cart
            /\ customerInfo' = customerInfo ]_vars

\* submitCart ran with a line in the cart, a name and no email
C5_Witness ==
    /\ last.op = "submitCart"
    /\ cart # << >>
    /\ customerInfo.name # "" /\ customerInfo.email = ""
    /\ customerInfo.phone # ""

\* C6: the success toast is emitted when a request completes with an ok
\* response and by no other step, and after that step the cart is empty
\* (total 0, no lines), the four customerInfo fields are "" and the cart
\* view is closed.
C6_SuccessResets ==
    /\ ("Cart submitted!" \in Titles(last.toasts)) <=> (last.op = "responseOk")
    /\ last.op = "responseOk" =>
          /\ cart = << >>
          /\ Len(cart) = 0
          /\ getTotalPrice = 0
          /\ \A field \in Fields : customerInfo[field] = ""
          /\ isCartOpen = FALSE

\* a request carrying two lines and a phone number completed with ok
C6_Witness ==
    /\ last.op = "responseOk"
    /\ Len(last.args.request.cartData.items) = 2
    /\ last.args.request.cartData.customer.phone # ""

\* C7: a request that ends with a non-ok response or with a rejected fetch
\* emits the same single failure toast in both cases, and that step leaves
\* cart, customerInfo and isCartOpen as they were.
C7_FailureKeepsState ==
    [][ (last'.op \in {"responseNotOk", "fetchRejected"}) =>
            /\ last'.toasts = << FailedToast >>
            /\ cart' = cart
            /\ customerInfo' = customerInfo
            /\ isCartOpen' = isCartOpen ]_vars

\* a non-ok response arrived while the cart, the form and the view held data
C7_Witness ==
    /\ last.op = "responseNotOk"
    /\ cart # << >>
    /\ customerInfo.name # "" /\ customerInfo.email # ""
    /\ isCartOpen

\* C8: every submitCart call emits exactly one toast of its own: a call
\* that is rejected emits the empty-cart or the missing-information toast
\* and leaves no request behind; a call that is accepted emits nothing
\* while its one request is outstanding and the success or the failure
\* toast when that request settles; a request settles once.
C8_OneToastPerSubmit ==
    [][ /\ last'.op = "submitCart" =>
            \/ /\ Pending' = Pending
               /\ Len(last'.toasts) = 1
               /\ last'.toasts[1].title
                     \in {"Cart is empty", "Missing information"}
            \/ /\ Pending' = Pending + 1
               /\ last'.toasts = << >>
        /\ last'.op \in SubmitCompletions =>
            /\ Pending' = Pending - 1
            /\ CopiesIn(last'.args.request, inflight')
                  = CopiesIn(last'.args.request, inflight) - 1
            /\ Len(last'.toasts) = 1
            /\ last'.toasts[1].title
                  \in {"Cart submitted!", "Submission failed"}
        /\ last'.op \notin SubmitCompletions \cup {"submitCart"} =>
            /\ inflight' = inflight
            /\ Titles(last'.toasts) \subseteq {"Added to cart"} ]_vars

\* a rejected fetch was reported while another request is still outstanding
C8_Witness ==
    /\ last.op = "fetchRejected"
    /\ Len(last.toasts) = 1
    /\ Pending = 1

\* C9: a submitCart call that passes both checks issues exactly one request,
\* and no other step issues one: a request that failed is gone from the
\* outstanding requests and is not sent again.
C9_OneRequestNoRetry ==
    [][ /\ (/\ last'.op = "submitCart"
            /\ cart # << >>
            /\ customerInfo.name # "" /\ customerInfo.email # "") =>
               Pending' = Pending + 1
        /\ last'.op # "submitCart" =>
               \A request \in BagToSet(inflight') :
                   CopiesIn(request, inflight') <= CopiesIn(request, inflight)
        /\ last'.op \in {"responseNotOk", "fetchRejected"} =>
               Pending' = Pending - 1 ]_vars

\* the only request failed and nothing is outstanding afterwards
C9_Witness ==
    /\ last.op = "responseNotOk"
    /\ inflight = EmptyBag
    /\ cart = last.args.request.cartData.items

\* C10: the payload built by submitCart is the state at the invocation: its
\* items are the cart (same lines, same order), its customer is
\* customerInfo, and its total is the sum of price x quantity over its own
\* items.
C10_PayloadIsCurrentState ==
    [][ (last'.op = "submitCart" /\ inflight' # inflight) =>
            \E request \in BagToSet(inflight') :
                /\ CopiesIn(request, inflight')
                      = CopiesIn(request, inflight) + 1
                /\ request.cartData.items = cart
                /\ request.cartData.customer = customerInfo
                /\ request.cartData.total = LineSum(request.cartData.items) ]_vars

\* a request was issued for a cart of two lines and a fully filled form
C10_Witness ==
    /\ last.op = "submitCart"
    /\ last.toasts = << >>
    /\ Len(cart) = 2
    /\ \A field \in Fields : customerInfo[field] # ""
    /\ \E request \in BagToSet(inflight) :
          /\ request.cartData.items = cart
          /\ request.cartData.customer = customerInfo

\* C11: cart and customerInfo are empty at page load; one step empties both
\* only when it is the completion of a successful submission; a submitCart
\* call, a failed completion, and opening or closing the cart view never
\* change the cart or any customerInfo field.
C11_ResetOnlyOnSuccess ==
    /\ (steps = 0 /\ last.op = "mount") =>
           (cart = << >> /\ customerInfo = EmptyCustomerInfo)
    /\ [][ /\ (/\ cart' = << >> /\ customerInfo' = EmptyCustomerInfo
               /\ cart # << >> /\ customerInfo # EmptyCustomerInfo) =>
                  last'.op = "responseOk"
           /\ last'.op \in {"submitCart", "responseNotOk", "fetchRejected",
                            "openCart", "closeCart"} =>
                  /\ cart' = cart
                  /\ \A field \in Fields :
                        customerInfo'[field] = customerInfo[field] ]_vars

\* the cart view was closed and the cart and the form still hold their data
C11_Witness ==
    /\ last.op = "closeCart"
    /\ Len(cart) = 2
    /\ customerInfo.name # "" /\ customerInfo.address # ""

\* C12: addToCart(p) on a cart with a line for p.id raises that line's
\* quantity by exactly 1 and leaves the number, order and content of the
\* other lines unchanged; otherwise it appends a line for p with quantity 1
\* after the existing lines.  So n calls for a product not in the cart
\* give one line of quantity n.
C12_AddIncrementsOrAppends ==
    [][ last'.op = "addToCart" =>
          LET p == last'.args.product
          IN  IF \E i \in DOMAIN cart : cart[i].id = p.id
              THEN /\ Len(cart') = Len(cart)
                   /\ \A i \in DOMAIN cart :
                         IF cart[i].id = p.id
                         THEN /\ cart'[i].quantity = cart[i].quantity + 1
                              /\ [cart'[i] EXCEPT !.quantity = 0]
                                    = [cart[i] EXCEPT !.quantity = 0]
                         ELSE cart'[i] = cart[i]
              ELSE /\ Len(cart') = Len(cart) + 1
                   /\ SubSeq(cart', 1, Len(cart)) = cart
                   /\ cart'[Len(cart')].quantity = 1
                   /\ cart'[Len(cart')].id = p.id
                   /\ \A k \in DOMAIN p : cart'[Len(cart')][k] = p[k] ]_vars

\* the first of two lines was added again: it has quantity 2, the second 1
C12_Witness ==
    /\ last.op = "addToCart"
    /\ Len(cart) = 2
    /\ cart[1].id = last.args.product.id
    /\ cart[1].quantity = 2
    /\ cart[2].quantity = 1

\* C13: for every cart, every id and every quantity q <= 0,
\* updateQuantity(id, q) produces the cart removeFromCart(id) produces.
C13_NonPositiveIsRemove ==
    \A productId \in ProductIds :
        \A quantity \in { q \in Quantities : q <= 0 } :
            UpdateQuantityUpdater(cart, productId, quantity)
                = RemoveFromCartUpdater(cart, productId)

\* a cart of two lines, where setting the first line to 0 leaves the second
C13_Witness ==
    /\ Len(cart) = 2
    /\ cart[1].quantity = 2
    /\ UpdateQuantityUpdater(cart, cart[1].id, 0) = << cart[2] >>
    /\ UpdateQuantityUpdater(cart, cart[1].id, -1) = << cart[2] >>

\* C14: for q >= 1, updateQuantity(id, q) sets the quantity of the line
\* with that id to exactly q whatever it was and leaves every other line
\* and the order unchanged; with no such line the cart is unchanged.
C14_SetsExactQuantity ==
    [][ (last'.op = "updateQuantity" /\ last'.args.quantity >= 1) =>
          LET id == last'.args.productId
              q  == last'.args.quantity
          IN  /\ Len(cart') = Len(cart)
              /\ \A i \in DOMAIN cart :
                    IF cart[i].id = id
                    THEN /\ cart'[i].quantity = q
                         /\ [cart'[i] EXCEPT !.quantity = 0]
                               = [cart[i] EXCEPT !.quantity = 0]
                    ELSE cart'[i] = cart[i]
              /\ (\A i \in DOMAIN cart : cart[i].id # id) => cart' = cart ]_vars

\* the second of two lines was set to quantity 1 while the first holds 2
C14_Witness ==
    /\ last.op = "updateQuantity"
    /\ last.args.quantity = 1
    /\ Len(cart) = 2
    /\ cart[2].id = last.args.productId
    /\ cart[2].quantity = 1
    /\ cart[1].quantity = 2

\* C15: removeFromCart(id) removes the line with that id if there is one
\* and leaves the other lines, their quantities and their order unchanged;
\* with no such line the cart is unchanged; it emits no toast.
C15_RemovesOnlyThatLine ==
    [][ last'.op = "removeFromCart" =>
          LET id == last'.args.productId
          IN  /\ last'.toasts = << >>
              /\ \A k \in DOMAIN cart :
                    cart[k].id = id =>
                        cart' = SubSeq(cart, 1, k - 1)
                                   \o SubSeq(cart, k + 1, Len(cart))
              /\ (\A k \in DOMAIN cart : cart[k].id # id) => cart' = cart ]_vars

\* product "1" was removed and the line of product "2" keeps quantity 2
C15_Witness ==
    /\ last.op = "removeFromCart"
    /\ last.args.productId = "1"
    /\ Len(cart) = 1
    /\ cart[1].id = "2"
    /\ cart[1].quantity = 2

\* C16: with a fair network every submitCart call that issued its request
\* settles: outstanding requests are eventually all settled; a request
\* leaves the outstanding ones only by settling as success or failure, one
\* at a time, and the step that settles it emits its toast.
C16_RequestsSettle ==
    /\ (Pending > 0) ~> (Pending = 0)
    /\ [][ Pending' < Pending =>
             /\ last'.op \in SubmitCompletions
             /\ Pending' = Pending - 1
             /\ Len(last'.toasts) = 1
             /\ last'.toasts[1].title
                   \in {"Cart submitted!", "Submission failed"} ]_vars

\* the last of two requests settled after the user's last event
C16_Witness ==
    /\ steps = MaxSteps
    /\ last.op \in SubmitCompletions
    /\ Pending = 0
    /\ Len(last.toasts) = 1

\* C17: a submission attempt reaches Sending (a request is issued) exactly
\* when at the invocation the cart is non-empty and name and email are both
\* non-empty; otherwise it ends Rejected, with a rejection toast and no
\* request.  A Sending attempt ends Succeeded (cart and customerInfo
\* cleared) or Failed (both unchanged), never with a rejection toast.
C17_SubmissionStateMachine ==
    [][ /\ last'.op = "submitCart" =>
            IF cart # << >> /\ customerInfo.name # "" /\ customerInfo.email # ""
            THEN /\ Pending' = Pending + 1
                 /\ last'.toasts = << >>
            ELSE /\ inflight' = inflight
                 /\ Len(last'.toasts) = 1
                 /\ last'.toasts[1].title
                       \in {"Cart is empty", "Missing information"}
        /\ last'.op \in SubmitCompletions =>
            /\ CopiesIn(last'.args.request, inflight) >= 1
            /\ Len(last'.toasts) = 1
            /\ \/ /\ last'.toasts[1].title = "Cart submitted!"
                  /\ cart' = << >>
                  /\ customerInfo' = EmptyCustomerInfo
               \/ /\ last'.toasts[1].title = "Submission failed"
                  /\ cart' = cart
                  /\ customerInfo' = customerInfo ]_vars

\* one attempt succeeded while a second one is still Sending
C17_Witness ==
    /\ last.op = "responseOk"
    /\ Pending = 1
    /\ cart = << >>

\* C18: setting one customerInfo field replaces that field only: the field
\* holds the value entered, the other three fields and the cart are
\* unchanged, so after any sequence of edits each field holds the value of
\* the latest edit to it.
C18_FieldEditIsLocal ==
    [][ last'.op = "setCustomerInfo" =>
          /\ customerInfo'[last'.args.field] = last'.args.value
          /\ \A field \in Fields \ { last'.args.field } :
                customerInfo'[field] = customerInfo[field]
          /\ DOMAIN customerInfo' = Fields
          /\ cart' = cart ]_vars

\* the phone number was entered last; name, email, address and a cart line
\* entered before are still there
C18_Witness ==
    /\ last.op = "setCustomerInfo"
    /\ last.args.field = "phone" /\ last.args.value # ""
    /\ customerInfo.phone = last.args.value
    /\ customerInfo.name # "" /\ customerInfo.email # ""
    /\ customerInfo.address # ""
    /\ cart # << >>

\* C19: with a non-empty cart submitCart issues its request if and only if
\* name and email are both non-empty; phone and address have no influence.
C19_OnlyNameAndEmailRequired ==
    [][ (last'.op = "submitCart" /\ cart # << >>) =>
          ( (Pending' = Pending + 1)
              <=> (customerInfo.name # "" /\ customerInfo.email # "") ) ]_vars

\* a request was issued with phone and address both empty
C19_Witness ==
    /\ last.op = "submitCart"
    /\ last.toasts = << >>
    /\ Pending = 1
    /\ customerInfo.phone = "" /\ customerInfo.address = ""
    /\ customerInfo.name # "" /\ customerInfo.email # ""

\* C20: handleGetOrganizations answers a super_admin with the whole
\* registry, and any other caller with exactly the records of the registry
\* whose id is in the caller's organizations (none when there is no user or
\* organizations is not an array), in registry order; it never answers with
\* a record outside that set and it leaves the registry as it is.
C20_ListIsScoped ==
    /\ [](res.handler = "list" =>
            LET user    == res.req.user
                allowed == IF user.present /\ user.isArray
                           THEN user.organizations ELSE {}
                visible == { i \in DOMAIN organizations :
                               organizations[i].id \in allowed }
            IN  /\ res.status = 200
                /\ IF user.present /\ user.role = "super_admin"
                   THEN res.body = organizations
                   ELSE /\ Len(res.body) = Cardinality(visible)
                        /\ \A k \in DOMAIN res.body :
                              /\ res.body[k].id \in allowed
                              /\ \E i \in visible :
                                    res.body[k] = organizations[i]
                        /\ \A i \in visible :
                              \E k \in DOMAIN res.body :
                                  res.body[k] = organizations[i]
                        /\ \A k, l \in DOMAIN res.body :
                              k < l =>
                                \E i, j \in visible :
                                    /\ i < j
                                    /\ res.body[k] = organizations[i]
                                    /\ res.body[l] = organizations[j])
    /\ [][ res'.handler = "list" =>
             /\ organizations' = organizations
             /\ orgCounter' = orgCounter ]_vars

\* an admin scoped to the second of two organizations and to an unknown id
\* was answered with that one record
C20_Witness ==
    /\ res.handler = "list"
    /\ Len(organizations) = 2
    /\ res.req.user.present /\ res.req.user.role = "admin"
    /\ res.req.user.isArray
    /\ res.req.user.organizations = { organizations[2].id, UnknownOrgId }
    /\ res.body = << organizations[2] >>

\* C21: the records of the registry have pairwise distinct ids, and an id
\* once issued is never issued again: every id in the registry carries a
\* counter value below orgCounter, orgCounter never decreases (deletes
\* included), and an id that enters the registry carries the value orgCounter
\* had, which that step consumes.
C21_IdsAreUnique ==
    /\ [](/\ \A i, j \in DOMAIN organizations :
                organizations[i].id = organizations[j].id => i = j
          /\ \A i \in DOMAIN organizations :
                organizations[i].id[3] < orgCounter)
    /\ [][ /\ orgCounter' >= orgCounter
           /\ \A i \in DOMAIN organizations' :
                 \/ \E j \in DOMAIN organizations :
                       organizations'[i].id = organizations[j].id
                 \/ /\ organizations'[i].id[3] = orgCounter
                    /\ orgCounter' = orgCounter + 1 ]_vars

\* a record was created, deleted, and another created at the same instant:
\* the registry holds the second id alone
C21_Witness ==
    /\ res.handler = "create" /\ res.status = 201
    /\ Len(organizations) = 1
    /\ organizations[1].id[3] = 2
    /\ organizations[1].createdAt = 0
    /\ orgCounter = 3

\* C29: a request that ends in an error leaves the registry as it was: a
\* create without a name is answered 400, adds no record and consumes no
\* counter value; an update or delete of an id that is not in the registry is
\* answered 404 and changes nothing. A delete of an id in the registry is
\* answered 204 and removes exactly that record; an update of one is answered
\* 200, keeps the record's id and createdAt and every other record.
C29_ErrorsChangeNothing ==
    [][ now' = now =>
          LET ids == { organizations[i].id : i \in DOMAIN organizations }
              req == res'.req
          IN  /\ (res'.handler = "create"
                    /\ ("name" \notin DOMAIN req.body \/ req.body.name = ""))
                  => /\ res'.status = 400
                     /\ organizations' = organizations
                     /\ orgCounter' = orgCounter
              /\ (res'.handler \in {"update", "delete"} /\ req.id \notin ids)
                  => /\ res'.status = 404
                     /\ organizations' = organizations
                     /\ orgCounter' = orgCounter
              /\ (res'.handler = "delete" /\ req.id \in ids)
                  => /\ res'.status = 204
                     /\ Len(organizations') = Len(organizations) - 1
                     /\ \A i \in DOMAIN organizations :
                           IF organizations[i].id = req.id
                           THEN \A k \in DOMAIN organizations' :
                                   organizations'[k].id # req.id
                           ELSE \E k \in DOMAIN organizations' :
                                   organizations'[k] = organizations[i]
              /\ (res'.handler = "update" /\ req.id \in ids)
                  => /\ res'.status = 200
                     /\ Len(organizations') = Len(organizations)
                     /\ \A i \in DOMAIN organizations :
                           IF organizations[i].id = req.id
                           THEN /\ organizations'[i].id = req.id
                                /\ organizations'[i].createdAt
                                      = organizations[i].createdAt
                           ELSE organizations'[i] = organizations[i] ]_vars

\* an update of an unknown id was answered 404 while the registry held two
\* records
C29_Witness ==
    /\ res.handler = "update" /\ res.status = 404
    /\ res.req.id = UnknownOrgId
    /\ Len(organizations) = 2

C24_EmptyCartCheckedFirst ==
    (/\ last.op = "submitCart"
     /\ cart = << >>
     /\ (customerInfo.name = "" \/ customerInfo.email = ""))
        => /\ Len(last.toasts) = 1
           /\ last.toasts[1].title = "Cart is empty"
           /\ "Missing information" \notin Titles(last.toasts)

\* submitCart ran with an empty cart and an empty form
C24_Witness ==
    /\ last.op = "submitCart"
    /\ cart = << >>
    /\ customerInfo.name = "" /\ customerInfo.email = ""
    /\ Titles(last.toasts) = {"Cart is empty"}

\* C25: submitCart has no in-flight guard: run while a request is
\* outstanding, it makes the same two checks and, when they pass, issues one
\* more request carrying the current cart and form, without a toast; when
\* they fail it issues none and emits a toast.
C25_NoInFlightGuard ==
    [][ (last'.op = "submitCart" /\ inflight # EmptyBag) =>
          IF cart # << >> /\ customerInfo.name # "" /\ customerInfo.email # ""
          THEN /\ last'.toasts = << >>
               /\ \E request \in BagToSet(inflight') :
                     /\ request.cartData.items = cart
                     /\ request.cartData.customer = customerInfo
                     /\ inflight' = inflight (+) SetToBag({ request })
          ELSE /\ inflight' = inflight
               /\ Len(last'.toasts) = 1 ]_vars

\* two requests carrying the same cart and form are outstanding
C25_Witness ==
    /\ last.op = "submitCart"
    /\ \E request \in BagToSet(inflight) :
          /\ CopiesIn(request, inflight) = 2
          /\ request.cartData.items = cart
          /\ cart # << >>

\* C26 as stated: when a successful completion empties the cart and the
\* form, every line (id and quantity) and every non-empty field value it
\* removes was in the payload of the request that completed.
C26_NothingDiscardedUnsubmitted ==
    [][ last'.op = "responseOk" =>
          LET payload == last'.args.request.cartData
          IN  /\ \A i \in DOMAIN cart :
                    \E k \in DOMAIN payload.items :
                        /\ payload.items[k].id = cart[i].id
                        /\ payload.items[k].quantity = cart[i].quantity
              /\ \A f \in {"name", "email", "phone", "address"} :
                    customerInfo[f] # "" =>
                        payload.customer[f] = customerInfo[f] ]_vars

\* C27: the catalogue's ids are pairwise distinct, and every line of the
\* cart is a catalogue item with a quantity: its id is a catalogue item's id
\* and each of its other fields has that item's value.
C27_LinesAreCatalogueItems ==
    /\ \A i, j \in DOMAIN PLUMBING_PRODUCTS :
          PLUMBING_PRODUCTS[i].id = PLUMBING_PRODUCTS[j].id => i = j
    /\ \A i \in DOMAIN cart :
          \E k \in DOMAIN PLUMBING_PRODUCTS :
              /\ cart[i].id = PLUMBING_PRODUCTS[k].id
              /\ DOMAIN cart[i] = DOMAIN PLUMBING_PRODUCTS[k] \cup {"quantity"}
              /\ \A field \in DOMAIN PLUMBING_PRODUCTS[k] :
                    cart[i][field] = PLUMBING_PRODUCTS[k][field]

\* a line whose quantity was raised and then set still has its item's price
C27_Witness ==
    /\ last.op = "updateQuantity"
    /\ Len(cart) = 2
    /\ cart[2].id = "1" /\ cart[2].quantity = 2 /\ cart[2].price = 45000

\* C28: the header label is the number of lines and the badge the sum of the
\* quantities; the badge is at least the label, equal to it exactly when
\* every line has quantity 1, and shown exactly when the cart is not empty.
C28_LabelAndBadge ==
    /\ CartLabel = Cardinality(DOMAIN cart)
    /\ Badge = SumOver([i \in DOMAIN cart |-> cart[i].quantity], DOMAIN cart)
    /\ Badge >= CartLabel
    /\ Badge = CartLabel <=> \A i \in DOMAIN cart : cart[i].quantity = 1
    /\ BadgeShown <=> cart # << >>

\* two lines with quantities 2 and 1: the label reads 2, the badge 3
C28_Witness ==
    /\ Len(cart) = 2
    /\ cart[1].quantity = 2 /\ cart[2].quantity = 1
    /\ CartLabel = 2 /\ Badge = 3 /\ BadgeShown

\* C22 as stated: the model and colour the page shows persist across a
\* reload: the colour after the reload is the colour before it; a built-in
\* primitive shown before the reload is the model after it (also when a
\* custom URL or an uploaded model had been loaded earlier); a custom model
\* shown before the reload is custom after it, with the same URL when it was
\* loaded from a URL.
C22_SelectionSurvivesReload ==
    [][ lastEvent' = "reload" =>
          /\ color' = color
          /\ model # "custom" => model' = model
          /\ model = "custom" => model' = "custom"
          /\ (model = "custom" /\ customUrl # "" /\ customUrl \notin created)
                => customUrl' = customUrl ]_vars

\* C30 as stated: once the page is unmounted and no load or upload is
\* pending, every object URL the page created has been revoked.
C30_NoObjectUrlLeak ==
    (~mounted /\ pendingGet = Null /\ pendingPuts = {})
        => created \subseteq revoked

\* the stored blob was read after the unmount: its object URL is in the ref
\* and nothing is left to revoke it
C30_Witness ==
    /\ lastEvent = "getResolved"
    /\ ~mounted
    /\ pendingPuts = {}
    /\ objectUrlRef \in created \ revoked

=============================================================================
